---- MODULE Spec2Model ----
(***************************************************************************)
(* A model of the Gaussian-splat viewer:                                   *)
(*   - parsePlyFile (services/plyParser, src/unnamed/part_001): header     *)
(*     scan, schema building and the binary vertex loop;                   *)
(*   - SplatRenderer (services/webglRenderer, src/unnamed/part_000): GPU   *)
(*     resource set, render loop, orbit camera and input handlers.         *)
(*                                                                         *)
(* A file is a string: one character per byte (TextDecoder('ascii') maps   *)
(* every byte to one UTF-16 code unit), the header text followed by the    *)
(* binary body.  A float32 read is represented by the four bytes read.     *)
(* Real numbers of the camera are fixed-point integers (see Unit).         *)
(***************************************************************************)
EXTENDS Integers, Sequences, FiniteSets, TLC

VARIABLES
  \* ---- parsePlyFile ----------------------------------------------------
  file,             \* the bytes of the File handed to parsePlyFile
  pc,               \* position inside parsePlyFile
  headerLines,      \* headerTextChunk.split('\n')
  i,                \* index of the header scan loop (0-based, as in the code)
  headerOffset,     \* let headerOffset
  endHeaderIndex,   \* let endHeaderIndex
  vertexCount,      \* let vertexCount (parser local)
  isBinary,         \* let isBinary
  inVertexElement,  \* let inVertexElement
  properties,       \* const properties: Property[]
  renderCount,      \* const renderCount
  byteOffset,       \* let byteOffset
  firstReadOffset,  \* history: byteOffset of the first vertex iteration, or -1
  vi,               \* index of the vertex loop (the code's second i)
  verts,            \* the attribute buffers, as runs of decoded vertices
  result,           \* what the promise settles to
  \* ---- SplatRenderer: fields -------------------------------------------
  program,          \* this.program (0: null)
  vao,              \* this.vao (0: null)
  thisVertexCount,  \* this.vertexCount
  animationId,      \* this.animationId (0: null)
  target,           \* this.target, <<x, y, z>>
  radius,           \* this.radius
  camRot,           \* this.camRot, [x: pitch, y: yaw]
  isDragging,       \* this.isDragging
  dragButton,       \* this.dragButton
  lastMouse,        \* this.lastMouse
  \* ---- the host: WebGL context, canvas, animation frames ----------------
  glPrograms,       \* the live program objects
  glShaders,        \* the number of live shader objects
  glVaos,           \* the live vertex arrays, each with the vertex count uploaded
  glBuffers,        \* the number of live buffer objects
  clientSize,       \* canvas.clientWidth, canvas.clientHeight
  canvasSize,       \* canvas.width, canvas.height
  rafQueue,         \* the handles of the pending requestAnimationFrame callbacks
  nextHandle,       \* the next handle requestAnimationFrame returns
  \* ---- history -----------------------------------------------------------
  inits,            \* the number of init calls so far
  frames,           \* the number of invocations of loop so far
  events,           \* the number of input events so far
  lastEvent,        \* the latest input event, the camRot and the target it found
  lastFrame,        \* the GPU calls of the latest invocation of loop
  loaded,           \* data.vertexCount of the latest init call, -1 before any
  disposed,         \* cleanup was called and init was not called since
  \* ---- App --------------------------------------------------------------
  status,           \* the ViewerState of App
  appData,          \* the state `data` of App, the prop of Viewer
  errorMsg,         \* the state errorMsg
  fileName,         \* the state fileName
  timers,           \* the pending setTimeout callbacks, oldest first
  parsing,          \* the parsePlyFile calls awaited
  selections        \* the number of files selected so far

plyVars == <<file, pc, headerLines, i, headerOffset, endHeaderIndex, vertexCount,
             isBinary, inVertexElement, properties, renderCount, byteOffset,
             firstReadOffset, vi, verts, result>>

rendererVars == <<program, vao, thisVertexCount, animationId>>

cameraVars == <<target, radius, camRot>>

dragVars == <<isDragging, dragButton, lastMouse>>

glVars == <<glPrograms, glShaders, glVaos, glBuffers>>

hostVars == <<clientSize, canvasSize, rafQueue, nextHandle>>

historyVars == <<inits, frames, events, lastEvent, lastFrame, loaded, disposed>>

viewerVars == <<rendererVars, cameraVars, dragVars, glVars, hostVars, historyVars>>

appVars == <<status, appData, errorMsg, fileName, timers, parsing, selections>>

vars == <<plyVars, viewerVars, appVars>>

-----------------------------------------------------------------------------
(* Program constants and bounds                                            *)

MAX_VERTEX_COUNT == 1000000

\* buffer.slice(0, 5000)
HEADER_CHUNK == 5000

\* Bound: the longest binary body drawn, in bytes.
MaxBody == 9

\* Bound: the largest small vertex count a header declares (the cap's
\* neighbourhood is drawn besides).
MaxDecl == 2

\* NaN, the result of parseInt on a string with no leading digits; encoded
\* as an integer no parseInt of a drawn header can produce.
NaN == 0 - (1000 * MAX_VERTEX_COUNT)

\* JavaScript's undefined, for parts[k] beyond the array; no element of a
\* split(' ') contains a space.
Undefined == " undefined"

-----------------------------------------------------------------------------
(* String primitives of the JavaScript runtime                             *)

CharAt(s, k) == SubSeq(s, k, k)

\* White space and line terminators removed by String.prototype.trim.
IsSpace(c) == c \in {" ", "\t", "\r", "\n", "\f"}

RECURSIVE TrimStart(_)
TrimStart(s) ==
  IF Len(s) > 0 /\ IsSpace(CharAt(s, 1)) THEN TrimStart(SubSeq(s, 2, Len(s))) ELSE s

RECURSIVE TrimEnd(_)
TrimEnd(s) ==
  IF Len(s) > 0 /\ IsSpace(CharAt(s, Len(s)))
  THEN TrimEnd(SubSeq(s, 1, Len(s) - 1)) ELSE s

Trim(s) == TrimEnd(TrimStart(s))

StartsWith(s, p) == Len(s) >= Len(p) /\ SubSeq(s, 1, Len(p)) = p

Includes(s, p) ==
  \E k \in 1..(Len(s) - Len(p) + 1) : SubSeq(s, k, k + Len(p) - 1) = p

SetMin(P) == CHOOSE p \in P : \A q \in P : p <= q

RECURSIVE SplitAt(_, _, _)
SplitAt(s, from, P) ==
  IF P = {} THEN <<SubSeq(s, from, Len(s))>>
  ELSE LET p == SetMin(P)
       IN  <<SubSeq(s, from, p - 1)>> \o SplitAt(s, p + 1, P \ {p})

\* String.prototype.split with a one-character separator.
Split(s, sep) == SplitAt(s, 1, {k \in 1..Len(s) : CharAt(s, k) = sep})

RECURSIVE Join(_, _)
\* Array.prototype.join
Join(ls, sep) ==
  IF Len(ls) = 0 THEN ""
  ELSE IF Len(ls) = 1 THEN ls[1]
  ELSE ls[1] \o sep \o Join(Tail(ls), sep)

\* parts[k] of a JavaScript array (0-based k).
PartAt(parts, k) == IF k + 1 <= Len(parts) THEN parts[k + 1] ELSE Undefined

DigitVal(c) ==
  CASE c = "0" -> 0 [] c = "1" -> 1 [] c = "2" -> 2 [] c = "3" -> 3 [] c = "4" -> 4
    [] c = "5" -> 5 [] c = "6" -> 6 [] c = "7" -> 7 [] c = "8" -> 8 [] c = "9" -> 9
    [] OTHER -> -1

RECURSIVE ParseDigits(_, _, _, _)
ParseDigits(s, k, acc, seen) ==
  IF k <= Len(s) /\ DigitVal(CharAt(s, k)) >= 0
  THEN ParseDigits(s, k + 1, 10 * acc + DigitVal(CharAt(s, k)), TRUE)
  ELSE IF seen THEN acc ELSE NaN

\* parseInt(s, 10): leading white space, an optional sign, then the longest
\* run of digits; NaN when there is none (also for undefined).
ParseInt(s) ==
  LET t == TrimStart(s)
      neg == Len(t) > 0 /\ CharAt(t, 1) = "-"
      signed == Len(t) > 0 /\ CharAt(t, 1) \in {"-", "+"}
      n == ParseDigits(t, IF signed THEN 2 ELSE 1, 0, FALSE)
  IN  IF s = Undefined \/ n = NaN THEN NaN ELSE IF neg THEN 0 - n ELSE n

\* Math.min on numbers that may be NaN.
MathMin(a, b) == IF a = NaN \/ b = NaN THEN NaN ELSE IF a <= b THEN a ELSE b

-----------------------------------------------------------------------------
(* Attribute values.  A value is the function applied and its source: a    *)
(* literal of the code, or the four bytes a getFloat32 read.               *)

Const(lit) == [fn |-> "const", src |-> lit]

\* dataView.getFloat32(off, true): the float encoded by bytes off..off+3.
GetFloat32(off) == [fn |-> "id", src |-> SubSeq(file, off + 1, off + 4)]

MathExp(v) == [fn |-> "exp", src |-> v.src]

Sigmoid(v) == [fn |-> "1/(1+exp(-v))", src |-> v.src]

SH0(v) == [fn |-> "0.5+0.28209479177387814*v", src |-> v.src]

\* A store that would keep a colour outside [0, 1].
Unclamped(v) == v

\* Math.max(0, Math.min(1, v)); the only literal clamped is the default 0.5.
Clamp01(v) == IF v.fn = "const" THEN v ELSE [fn |-> "clamp01(" \o v.fn \o ")", src |-> v.src]

\* Lines 97-101: the per-vertex defaults.
DefaultVertex ==
  [x |-> Const("0"), y |-> Const("0"), z |-> Const("0"),
   r |-> Const("0.5"), g |-> Const("0.5"), b |-> Const("0.5"),
   opacity |-> Const("1.0"),
   sx |-> Const("0.1"), sy |-> Const("0.1"), sz |-> Const("0.1"),
   rw |-> Const("1"), rx |-> Const("0"), ry |-> Const("0"), rz |-> Const("0")]

\* The switch on prop.name for a float property.
RouteFloat(v, name, value) ==
  CASE name = "x" -> [v EXCEPT !.x = value]
    [] name = "y" -> [v EXCEPT !.y = value]
    [] name = "z" -> [v EXCEPT !.z = value]
    [] name = "scale_0" -> [v EXCEPT !.sx = MathExp(value)]
    [] name = "scale_1" -> [v EXCEPT !.sy = MathExp(value)]
    [] name = "scale_2" -> [v EXCEPT !.sz = MathExp(value)]
    [] name = "rot_0" -> [v EXCEPT !.rw = value]
    [] name = "rot_1" -> [v EXCEPT !.rx = value]
    [] name = "rot_2" -> [v EXCEPT !.ry = value]
    [] name = "rot_3" -> [v EXCEPT !.rz = value]
    [] name = "opacity" -> [v EXCEPT !.opacity = Sigmoid(value)]
    [] name = "f_dc_0" -> [v EXCEPT !.r = SH0(value)]
    [] name = "f_dc_1" -> [v EXCEPT !.g = SH0(value)]
    [] name = "f_dc_2" -> [v EXCEPT !.b = SH0(value)]
    [] OTHER -> v

\* A skip that would take a double for four bytes.
SkipWidthDoubleAsFloat(type) ==
  IF type = "uchar" \/ type = "uint8" THEN 1
  ELSE IF type = "int" \/ type = "int32" \/ type = "double" THEN 4
  ELSE 0

\* Lines 128-131: the bytes skipped for a non-float property.  The comment
\* announces a fallback of 4; the code adds nothing for an unknown type.
SkipWidth(type) ==
  IF type = "uchar" \/ type = "uint8" THEN 1
  ELSE IF type = "int" \/ type = "int32" THEN 4
  ELSE IF type = "double" THEN 8
  ELSE 0

IsFloatType(type) == type = "float" \/ type = "float32"

RECURSIVE ReadProps(_, _, _, _)
\* Lines 103-133: the loop over the schema for one vertex.  getFloat32 throws
\* a RangeError when the four bytes do not lie inside the buffer.
ReadProps(props, k, off, v) ==
  IF k > Len(props) THEN [threw |-> FALSE, off |-> off, v |-> v]
  ELSE IF IsFloatType(props[k].type)
       THEN IF off + 4 > Len(file)
            THEN [threw |-> TRUE, off |-> off, v |-> v]
            ELSE ReadProps(props, k + 1, off + 4,
                           RouteFloat(v, props[k].name, GetFloat32(off)))
       ELSE ReadProps(props, k + 1, off + SkipWidth(props[k].type), v)

\* Lines 135-153: what is stored for one vertex.
StoredVertex(v) ==
  [positions |-> <<v.x, v.y, v.z>>,
   scales |-> <<v.sx, v.sy, v.sz>>,
   rotations |-> <<v.rw, v.rx, v.ry, v.rz>>,
   opacities |-> <<v.opacity>>,
   colors |-> <<Clamp01(v.r), Clamp01(v.g), Clamp01(v.b)>>]

\* Lines 86-90: a new Float32Array holds zeros.
ZeroVertex ==
  [positions |-> <<Const("0"), Const("0"), Const("0")>>,
   scales |-> <<Const("0"), Const("0"), Const("0")>>,
   rotations |-> <<Const("0"), Const("0"), Const("0"), Const("0")>>,
   opacities |-> <<Const("0")>>,
   colors |-> <<Const("0"), Const("0"), Const("0")>>]

\* The number of vertices the loop stored: runs vs cover 0..Covered(vs) - 1.
Covered(vs) == IF vs = <<>> THEN 0 ELSE vs[Len(vs)].first + vs[Len(vs)].n

\* What the five buffers hold for vertex j after the loop.
VertexAt(vs, j) ==
  IF j < Covered(vs)
  THEN vs[CHOOSE r \in 1..Len(vs) : vs[r].first <= j /\ j < vs[r].first + vs[r].n].v
  ELSE ZeroVertex

-----------------------------------------------------------------------------
(* The header scan                                                         *)

\* Line 14: textDecoder.decode(buffer.slice(0, 5000))
HeaderTextChunk(f) == SubSeq(f, 1, IF Len(f) < HEADER_CHUNK THEN Len(f) ELSE HEADER_CHUNK)

\* Lines 42-43: headerLines.slice(0, i + 1).join('\n') + '\n', its length.
ExactHeaderOffset(lines, k) == Len(Join(SubSeq(lines, 1, k + 1), "\n") \o "\n")

\* A scanner that would accept any binary encoding.
FormatAcceptedAnyBinary(line) == Includes(line, "binary")

\* Lines 47-48: a format line is accepted.
FormatAccepted(line) == Includes(line, "binary_little_endian 1.0")

\* Line 55
OpensVertexElement(line) == StartsWith(line, "element vertex")

\* Line 59
ClosesVertexElement(line) == StartsWith(line, "element") /\ ~Includes(line, "vertex")

\* Lines 55-61
NextInVertexElement(line, cur) ==
  IF OpensVertexElement(line) THEN TRUE
  ELSE IF ClosesVertexElement(line) THEN FALSE
  ELSE cur

\* Lines 55-57
NextVertexCount(line, cur) ==
  IF OpensVertexElement(line) THEN ParseInt(PartAt(Split(line, " "), 2)) ELSE cur

\* Lines 63-69
NextProperties(line, inVertex, props) ==
  IF inVertex /\ StartsWith(line, "property")
  THEN LET parts == Split(line, " ")
       IN  Append(props, [name |-> PartAt(parts, 2), type |-> PartAt(parts, 1)])
  ELSE props

\* Line 77
RenderCountOf(count) == MathMin(count, MAX_VERTEX_COUNT)

Rejected(msg) == [status |-> "error", message |-> msg, data |-> <<>>]

\* Lines 159-166
Resolved(count, vs) ==
  [status |-> "ok", message |-> "",
   data |-> <<[vertexCount |-> count,
               \* new Float32Array(NaN) has length 0
               positionsLen |-> IF count = NaN THEN 0 ELSE count * 3,
               scalesLen |-> IF count = NaN THEN 0 ELSE count * 3,
               rotationsLen |-> IF count = NaN THEN 0 ELSE count * 4,
               opacitiesLen |-> IF count = NaN THEN 0 ELSE count,
               colorsLen |-> IF count = NaN THEN 0 ELSE count * 3,
               verts |-> vs]>>]

-----------------------------------------------------------------------------
(* The files drawn                                                         *)

RECURSIVE Rep(_, _)
\* k copies of the character c
Rep(c, k) ==
  IF k = 0 THEN ""
  ELSE IF k % 2 = 0 THEN LET h == Rep(c, k \div 2) IN h \o h
  ELSE c \o Rep(c, k - 1)

BodyBytes == "ABCDEFGHIJKLMNOPQRSTUVWXYZ"

\* A binary body of n bytes, all distinct.
Body(n) == SubSeq(BodyBytes, 1, n)

\* A header whose lines all end with eol, followed by the body.
FileOf(lines, eol, body) == Join(lines, eol) \o eol \o body

BinLine == "format binary_little_endian 1.0"

VertexLine(n) == "element vertex " \o ToString(n)

Schemas ==
  { <<>>,
    <<"property float x">>,
    <<"property float x", "property uchar red">>,
    <<"property short s", "property float x">>,
    <<"property double t", "property float32 y">>,
    <<"property int n", "property float opacity">> }

\* What may stand between the vertex properties and end_header.
Tails ==
  { <<>>,
    <<"element face 1", "property list uchar int vertex_indices">>,
    <<"element vertex_indices 3", "property float y">>,
    <<"element face_vertex 2", "property float y">>,
    <<"element face 1", "property float q", "element vertex 1", "property float y">> }

\* Well-formed headers over every schema, tail and body length.
CoreFiles ==
  { FileOf(<<"ply", BinLine, VertexLine(n)>> \o s \o t \o <<"end_header">>, "\n", Body(b)) :
      n \in 0..MaxDecl, s \in Schemas, t \in Tails, b \in 0..MaxBody }

\* Declared counts around the cap.
CapFiles ==
  { FileOf(<<"ply", BinLine, VertexLine(n)>> \o s \o <<"end_header">>, "\n", Body(b)) :
      n \in {MAX_VERTEX_COUNT - 1, MAX_VERTEX_COUNT, MAX_VERTEX_COUNT + 1},
      s \in { <<>>, <<"property float x">>, <<"property short s">> },
      b \in {0, 4, MaxBody} }

FormatVariants ==
  { <<>>, <<"format ascii 1.0">>, <<"format binary_big_endian 1.0">>,
    <<BinLine, "format ascii 1.0">>, <<"format ascii 1.0", BinLine>>,
    <<"comment format ascii 1.0", BinLine>>, <<"Format binary_little_endian 1.0">> }

\* Format lines present, absent, repeated, or only after end_header; with and
\* without end_header.
FormatFiles ==
  { FileOf(<<"ply">> \o f \o <<VertexLine(n), "property float x">> \o e \o g, "\n", Body(b)) :
      f \in FormatVariants, n \in 1..MaxDecl, e \in { <<>>, <<"end_header">> },
      g \in { <<>>, <<BinLine>>, <<"format ascii 1.0">> }, b \in {0, 8} }

\* No element vertex line at all, or one after another element.
ElementFiles ==
  { FileOf(<<"ply", BinLine>> \o e \o s \o <<"end_header">>, "\n", Body(b)) :
      e \in { <<>>, <<"element face 1">>,
              <<"element face 1", "property float q", VertexLine(1)>>,
              <<"element vertex">>, <<"element vertex -1">>,
              <<"element vertex_indices 3">> },
      s \in { <<>>, <<"property float x">> }, b \in {0, 4, 8} }

\* Irregular layout: CR-LF line ends, white space around lines, a missing
\* end_header, an end_header that ends the file without a newline.
LayoutFiles ==
  { Join(<<pre \o "ply" \o post, BinLine \o post, pre \o VertexLine(n),
           "property float x" \o post>> \o e, eol) \o last \o Body(b) :
      pre \in {"", "  "}, post \in {"", " \t"}, eol \in {"\n", "\r\n"},
      e \in { <<>>, <<"end_header">>, <<" end_header  ">> },
      last \in {"", "\n", "\r\n"}, n \in 1..MaxDecl, b \in {0, 3, 4, 8} }

\* Headers about as long as the scanned prefix: the end_header line begins
\* d bytes before byte HEADER_CHUNK + 2.
LongFiles ==
  { LET head == Join(<<"ply", BinLine, VertexLine(1), "property float x">>, "\n") \o "\ncomment "
        pad == HEADER_CHUNK + 2 - d - Len(head) - 1
    IN  head \o Rep("x", pad) \o "\n" \o endl \o Body(8) :
      d \in 9..13, endl \in {"end_header\n", "end_header \n", "end_header\r\n"} }

\* Body bytes for the attribute files: no four-byte window occurs twice in
\* the first 65 bytes.
AttrBytes == "ABCDEFGHIJKLMNOPQRSTUVWXYZabcdefghijklmnopqrstuvwxyz0123456789"

AttrBody(n) == SubSeq(AttrBytes \o AttrBytes, 1, n)

\* Schemas over the names the decoder routes: the usual splat layout, a
\* partial one in another order, attribute names on non-float types, a
\* float of a name the decoder does not know.
AttributeSchemas ==
  { <<"property float x", "property float y", "property float z",
      "property float f_dc_0", "property float f_dc_1", "property float f_dc_2",
      "property float opacity",
      "property float scale_0", "property float scale_1", "property float scale_2",
      "property float rot_0", "property float rot_1", "property float rot_2",
      "property float rot_3">>,
    <<"property float rot_1", "property float32 scale_2", "property float f_dc_1",
      "property float z">>,
    <<"property uchar x", "property float y", "property int opacity",
      "property double scale_0", "property float f_dc_0">>,
    <<"property uint8 rot_0", "property int32 f_dc_2", "property float32 rot_3">>,
    <<"property float nx", "property float x">> }

AttrBodies == {18, 42, 56, 112}

\* Well-formed headers over the attribute schemas.
AttributeFiles ==
  { FileOf(<<"ply", BinLine, VertexLine(n)>> \o s \o <<"end_header">>, "\n", AttrBody(b)) :
      n \in 1..MaxDecl, s \in AttributeSchemas, b \in AttrBodies }

Files ==
  CoreFiles \cup CapFiles \cup FormatFiles \cup ElementFiles \cup LayoutFiles
    \cup LongFiles \cup AttributeFiles

-----------------------------------------------------------------------------
(* parsePlyFile, step by step                                              *)

PlyInit ==
  /\ file \in Files
  /\ pc = "start"
  /\ headerLines = <<>>
  /\ i = 0
  /\ headerOffset = 0
  /\ endHeaderIndex = -1
  /\ vertexCount = 0
  /\ isBinary = FALSE
  /\ inVertexElement = FALSE
  /\ properties = <<>>
  /\ renderCount = 0
  /\ byteOffset = 0
  /\ firstReadOffset = -1
  /\ vi = 0
  /\ verts = <<>>
  /\ result = [status |-> "pending", message |-> "", data |-> <<>>]

\* Lines 8-15: read the buffer, decode the prefix, split it into lines.
ReadHeader ==
  /\ pc = "start"
  /\ headerLines' = Split(HeaderTextChunk(file), "\n")
  /\ pc' = "scan"
  /\ UNCHANGED <<file, i, headerOffset, endHeaderIndex, vertexCount, isBinary,
                 inVertexElement, properties, renderCount, byteOffset,
                 firstReadOffset, vi, verts, result>>
  /\ UNCHANGED <<viewerVars, appVars>>

\* Lines 34-70: one iteration of the header loop.
ScanLine ==
  /\ pc = "scan"
  /\ i < Len(headerLines)
  /\ LET line == Trim(headerLines[i + 1])
         inV == NextInVertexElement(line, inVertexElement)
     IN  IF line = "end_header"
         THEN /\ endHeaderIndex' = i
              /\ headerOffset' = ExactHeaderOffset(headerLines, i)
              /\ pc' = "postscan"
              /\ UNCHANGED <<i, vertexCount, isBinary, inVertexElement, properties, result>>
         ELSE IF StartsWith(line, "format") /\ ~FormatAccepted(line)
         THEN /\ headerOffset' = headerOffset + Len(line) + 1
              /\ result' = Rejected("Unsupported PLY format. Must be binary_little_endian 1.0")
              /\ pc' = "done"
              /\ UNCHANGED <<i, endHeaderIndex, vertexCount, isBinary, inVertexElement,
                             properties>>
         ELSE /\ headerOffset' = headerOffset + Len(line) + 1
              /\ isBinary' = (isBinary \/ StartsWith(line, "format"))
              /\ vertexCount' = NextVertexCount(line, vertexCount)
              /\ inVertexElement' = inV
              /\ properties' = NextProperties(line, inV, properties)
              /\ i' = i + 1
              /\ pc' = IF i + 1 < Len(headerLines) THEN "scan" ELSE "postscan"
              /\ UNCHANGED <<endHeaderIndex, result>>
  /\ UNCHANGED <<file, headerLines, renderCount, byteOffset, firstReadOffset, vi, verts>>
  /\ UNCHANGED <<viewerVars, appVars>>

\* Lines 72-86: the isBinary check, the cap, the allocation of the five
\* buffers (a negative length throws a RangeError) and the start offset.
PostScan ==
  /\ pc = "postscan"
  /\ IF ~isBinary
     THEN /\ result' = Rejected("PLY file is not binary.")
          /\ pc' = "done"
          /\ UNCHANGED <<renderCount, byteOffset>>
     ELSE LET rc == RenderCountOf(vertexCount)
          IN  IF rc # NaN /\ rc < 0
              THEN /\ result' = Rejected("RangeError: Invalid typed array length")
                   /\ pc' = "done"
                   /\ renderCount' = rc
                   /\ UNCHANGED byteOffset
              ELSE /\ renderCount' = rc
                   /\ byteOffset' = headerOffset
                   /\ pc' = "decode"
                   /\ UNCHANGED result
  /\ UNCHANGED <<file, headerLines, i, headerOffset, endHeaderIndex, vertexCount, isBinary,
                 inVertexElement, properties, firstReadOffset, vi, verts>>
  /\ UNCHANGED <<viewerVars, appVars>>

\* Line 92 and 94: the vertex loop goes on.
LoopContinues == vi < renderCount /\ byteOffset < Len(file)

\* Lines 92-154: one iteration of the vertex loop.  An iteration that
\* consumes no byte leaves byteOffset as it was, so every later iteration
\* repeats it: the run of identical iterations up to renderCount is taken in
\* one step, and stored as one run of n equal vertices.
DecodeVertex ==
  /\ pc = "decode"
  /\ LoopContinues
  /\ LET r == ReadProps(properties, 1, byteOffset, DefaultVertex)
         n == IF r.off = byteOffset THEN renderCount - vi ELSE 1
     IN  IF r.threw
         THEN /\ result' = Rejected("RangeError: Offset is outside the bounds of the DataView")
              /\ pc' = "done"
              /\ UNCHANGED <<byteOffset, vi, verts>>
         ELSE /\ verts' = Append(verts, [first |-> vi, n |-> n, v |-> StoredVertex(r.v)])
              /\ byteOffset' = r.off
              /\ vi' = vi + n
              /\ UNCHANGED <<pc, result>>
  /\ firstReadOffset' = IF vi = 0 THEN byteOffset ELSE firstReadOffset
  /\ UNCHANGED <<file, headerLines, i, headerOffset, endHeaderIndex, vertexCount, isBinary,
                 inVertexElement, properties, renderCount>>
  /\ UNCHANGED <<viewerVars, appVars>>

\* Lines 159-166: the loop is over (or broke at line 94); return.
Return ==
  /\ pc = "decode"
  /\ ~LoopContinues
  /\ result' = Resolved(renderCount, verts)
  /\ pc' = "done"
  /\ UNCHANGED <<file, headerLines, i, headerOffset, endHeaderIndex, vertexCount, isBinary,
                 inVertexElement, properties, renderCount, byteOffset, firstReadOffset,
                 vi, verts>>
  /\ UNCHANGED <<viewerVars, appVars>>

PlyNext == ReadHeader \/ ScanLine \/ PostScan \/ DecodeVertex \/ Return

-----------------------------------------------------------------------------
(* What a file says, read off the file itself                              *)

\* The lines of the scanned prefix, trimmed.
PrefixLines == LET ls == Split(HeaderTextChunk(file), "\n")
               IN  [k \in 1..Len(ls) |-> Trim(ls[k])]

\* Index of the first end_header line of the scanned prefix, 0 when none.
PrefixEnd ==
  LET ls == PrefixLines
      E == {k \in 1..Len(ls) : ls[k] = "end_header"}
  IN  IF E = {} THEN 0 ELSE SetMin(E)

\* The header lines: those before end_header (all scanned lines when it is
\* missing).
HeaderLineSeq ==
  LET ls == PrefixLines
      E == {k \in 1..Len(ls) : ls[k] = "end_header"}
  IN  IF E = {} THEN ls ELSE SubSeq(ls, 1, SetMin(E) - 1)

IsFormatLine(l) == StartsWith(l, "format")

\* The words of a line.
Words(l) == Split(l, " ")

\* `element vertex ...`: the declaration of the element named vertex.
IsVertexDecl(l) ==
  LET w == Words(l) IN Len(w) >= 2 /\ w[1] = "element" /\ w[2] = "vertex"

\* The count of a declaration `element vertex <N>`, NaN when it has none.
DeclCount(l) ==
  LET w == Words(l) IN IF Len(w) = 3 THEN ParseDigits(w[3], 1, 0, FALSE) ELSE NaN

IsElementLine(l) == Len(Words(l)) >= 1 /\ Words(l)[1] = "element"

IsPropertyLine(l) == Len(Words(l)) >= 1 /\ Words(l)[1] = "property"

\* The counts the header declares for the vertex element.
DeclaredCounts ==
  LET hs == HeaderLineSeq
  IN  {DeclCount(hs[k]) : k \in {j \in 1..Len(hs) : IsVertexDecl(hs[j])}} \ {NaN}

Least(a, b) == IF a <= b THEN a ELSE b

RECURSIVE BlockProps(_, _)
\* The property lines from line k on, up to the next element line.
BlockProps(ls, k) ==
  IF k > Len(ls) \/ IsElementLine(ls[k]) THEN <<>>
  ELSE IF IsPropertyLine(ls[k])
       THEN <<[name |-> PartAt(Words(ls[k]), 2), type |-> PartAt(Words(ls[k]), 1)]>>
            \o BlockProps(ls, k + 1)
       ELSE BlockProps(ls, k + 1)

\* The properties declared inside the first `element vertex` block.
FirstVertexBlock ==
  LET hs == HeaderLineSeq
      D == {k \in 1..Len(hs) : IsVertexDecl(hs[k])}
  IN  IF D = {} THEN <<>> ELSE BlockProps(hs, SetMin(D) + 1)

RECURSIVE SumLens(_, _)
\* The bytes of lines 1..k, each with its newline.
SumLens(ls, k) == IF k = 0 THEN 0 ELSE Len(ls[k]) + 1 + SumLens(ls, k - 1)

\* The lines of the whole file.
AllLines == Split(file, "\n")

\* Index of the first end_header line of the file, 0 when none.
FileEndOf(ls) ==
  LET E == {k \in 1..Len(ls) : Trim(ls[k]) = "end_header"}
  IN  IF E = {} THEN 0 ELSE SetMin(E)

\* The end_header line is followed by a newline in the file.
EndHeaderTerminated ==
  LET ls == AllLines IN FileEndOf(ls) > 0 /\ FileEndOf(ls) < Len(ls)

\* The bytes of the file up to and including end_header and its newline.
TrueHeaderLength == LET ls == AllLines IN SumLens(ls, FileEndOf(ls))

\* The width of a property in a vertex record.
TypeWidth(type) ==
  IF IsFloatType(type) THEN 4
  ELSE IF type \in {"uchar", "uint8"} THEN 1
  ELSE IF type \in {"int", "int32"} THEN 4
  ELSE IF type = "double" THEN 8
  ELSE 0

RECURSIVE Stride(_)
Stride(props) == IF props = <<>> THEN 0 ELSE TypeWidth(Head(props).type) + Stride(Tail(props))

\* The vertex loop was entered and parsePlyFile has settled.
Decoded ==
  /\ pc = "done"
  /\ \/ result.status = "ok"
     \/ result.message = "RangeError: Offset is outside the bounds of the DataView"

\* The bytes that follow the header offset used.
BodyLength == IF Len(file) > headerOffset THEN Len(file) - headerOffset ELSE 0

\* The binary body is shorter than vertexCount x recordStride.
Truncated ==
  /\ Decoded
  /\ endHeaderIndex >= 0
  /\ EndHeaderTerminated
  /\ renderCount # NaN
  /\ Stride(properties) > 0
  /\ BodyLength < renderCount * Stride(properties)

-----------------------------------------------------------------------------
(* Claims about parsePlyFile                                               *)

\* C1: when the binary body is shorter than vertexCount x recordStride,
\* parsePlyFile raises no exception and the vertexCount it returns is the
\* number of vertex records wholly inside the buffer.
C1_TruncatedBodyCount ==
  Truncated =>
    /\ result.status = "ok"
    /\ result.data[1].vertexCount = BodyLength \div Stride(properties)

\* C2: when no line of the scanned prefix is end_header, parsePlyFile fails
\* (with whatever format, element and property lines) and returns nothing.
C2_MissingEndHeaderFails ==
  (pc = "done" /\ PrefixEnd = 0) => (result.status = "error" /\ result.data = <<>>)

\* C3: a decode without error returns min(N, 1,000,000) for a count N that
\* the header declares on an `element vertex N` line, and no vertex of index
\* 1,000,000 or more is decoded.
C3_CountIsCappedDeclared ==
  (pc = "done" /\ result.status = "ok" /\ DeclaredCounts # {}) =>
    /\ result.data[1].vertexCount \in {Least(n, MAX_VERTEX_COUNT) : n \in DeclaredCounts}
    /\ vi <= MAX_VERTEX_COUNT

\* C4: a header with a format line that lacks `binary_little_endian 1.0`, or
\* with no format line before end_header, makes parsePlyFile fail, and no
\* attribute buffer reaches the caller.
C4_BadFormatFails ==
  (pc = "done" /\
     LET hs == HeaderLineSeq
     IN  \/ \E k \in 1..Len(hs) :
               IsFormatLine(hs[k]) /\ ~Includes(hs[k], "binary_little_endian 1.0")
         \/ \A k \in 1..Len(hs) : ~IsFormatLine(hs[k]))
  => (result.status = "error" /\ result.data = <<>>)

\* C4 witness: a header that declares binary_big_endian was rejected.
C4_Witness ==
  /\ pc = "done"
  /\ result.status = "error"
  /\ PrefixEnd > 0
  /\ LET hs == HeaderLineSeq
     IN  \E k \in 1..Len(hs) : IsFormatLine(hs[k]) /\ Includes(hs[k], "binary_big_endian")

\* A header with no format line at all was rejected.
C4_WitnessNoFormat ==
  /\ pc = "done"
  /\ result.status = "error"
  /\ PrefixEnd > 0
  /\ LET hs == HeaderLineSeq IN \A k \in 1..Len(hs) : ~IsFormatLine(hs[k])

\* C5: when end_header is found (and a newline ends it), the first vertex
\* record is read at the exact length of the file up to and including the
\* end_header line and its newline.
C5_ExactHeaderOffset ==
  (firstReadOffset >= 0 /\ endHeaderIndex >= 0 /\ EndHeaderTerminated) =>
    firstReadOffset = TrueHeaderLength

\* C6: the schema is exactly the properties declared inside the first
\* `element vertex` block, in file order.
C6_SchemaIsFirstVertexBlock ==
  (pc \in {"postscan", "decode"} \/ Decoded) => properties = FirstVertexBlock

-----------------------------------------------------------------------------
(* Fixed-point arithmetic for the camera: a real v is the integer v * Unit *)

Unit == 1000

\* Math.PI and Math.PI / 2, in units
Pi == 3142

HalfPi == 1571

\* Division rounded to the nearest unit (b > 0).
Div(a, b) == IF a >= 0 THEN (a + b \div 2) \div b ELSE 0 - ((b \div 2 - a) \div b)

\* The product of two reals.
Mul(a, b) == Div(a * b, Unit)

\* An angle brought into (-Pi, Pi].
Wrap(a) == LET m == a % (2 * Pi) IN IF m > Pi THEN m - 2 * Pi ELSE m

\* The sine of an angle of [-HalfPi, HalfPi], by its Taylor series.
SinSeries(x) ==
  LET x2 == Mul(x, x)
      x3 == Mul(x2, x)
      x5 == Mul(x3, x2)
      x7 == Mul(x5, x2)
  IN  x - Div(x3, 6) + Div(x5, 120) - Div(x7, 5040)

\* Math.sin
MathSin(a) ==
  LET w == Wrap(a)
  IN  IF w > HalfPi THEN SinSeries(Pi - w)
      ELSE IF w < 0 - HalfPi THEN SinSeries(0 - Pi - w)
      ELSE SinSeries(w)

\* Math.cos
MathCos(a) == MathSin(a + HalfPi)

\* The element of a one-element set; {e(x) : x \in {v}} computes v once.
The(S) == CHOOSE v \in S : TRUE

RECURSIVE SqrtIter(_, _)
SqrtIter(n, r) ==
  The({IF r2 >= r THEN r ELSE SqrtIter(n, r2) : r2 \in {(r + n \div r) \div 2}})

\* Math.sqrt of a sum of products of two reals: n is in units squared.
MathSqrt(n) == IF n = 0 THEN 0 ELSE SqrtIter(n, n)

\* The cross product a x b.
Cross(a, b) ==
  <<Mul(a[2], b[3]) - Mul(a[3], b[2]),
    Mul(a[3], b[1]) - Mul(a[1], b[3]),
    Mul(a[1], b[2]) - Mul(a[2], b[1])>>

Dot(a, b) == Mul(a[1], b[1]) + Mul(a[2], b[2]) + Mul(a[3], b[3])

\* sqrt(a0*a0 + a1*a1 + a2*a2)
Length(a) == MathSqrt(a[1] * a[1] + a[2] * a[2] + a[3] * a[3])

\* a / len, component by component.
Scaled(a, len) == <<Div(a[1] * Unit, len), Div(a[2] * Unit, len), Div(a[3] * Unit, len)>>

-----------------------------------------------------------------------------
(* The camera                                                              *)

\* Math.PI / 2 - 0.01, the pitch clamp of line 169
PitchMargin == 10

PitchLimit == HalfPi - PitchMargin

\* Rotation per pixel: 0.005 rad
RotPerPixel == 5

\* Line 13
DefaultRadius == 5000

\* Line 251: Math.max(0.1, radius)
MinRadius == 100

\* A rotate that would clamp the yaw as it clamps the pitch.
RotatedClampingYaw(rot, dx, dy) ==
  LET clamp(v) == IF v > PitchLimit THEN PitchLimit
                  ELSE IF v < 0 - PitchLimit THEN 0 - PitchLimit ELSE v
  IN  [x |-> clamp(rot.x - dy * RotPerPixel), y |-> clamp(rot.y - dx * RotPerPixel)]

\* A rotate that would not clamp the pitch.
RotatedUnclamped(rot, dx, dy) ==
  [x |-> rot.x - dy * RotPerPixel, y |-> rot.y - dx * RotPerPixel]

\* Lines 166-169: rotate.
Rotated(rot, dx, dy) ==
  LET pitch == rot.x - dy * RotPerPixel
      yaw == rot.y - dx * RotPerPixel
      low == IF PitchLimit < pitch THEN PitchLimit ELSE pitch
  IN  [x |-> IF 0 - PitchLimit > low THEN 0 - PitchLimit ELSE low, y |-> yaw]

\* Lines 173-176 and 215-218: the eye relative to the target.
EyeOffset(rot, z) ==
  The({<<Mul(Mul(cy, cp), z), Mul(sp, z), Mul(Mul(sy, cp), z)>> :
         cy \in {MathCos(rot.y)}, sy \in {MathSin(rot.y)},
         cp \in {MathCos(rot.x)}, sp \in {MathSin(rot.x)}})

WorldUp == <<0, Unit, 0>>

\* Lines 219-239: the basis the pan moves along; no guard on the lengths.
PanBasis(rot, z) ==
  The({The({The({The({[f |-> f, right |-> right, u |-> Cross(f, right)] :
                        right \in {Scaled(r, Length(r))}}) :
                   r \in {Cross(WorldUp, f)}}) :
              f \in {Scaled(<<0 - eye[1], 0 - eye[2], 0 - eye[3]>>, Length(eye))}}) :
         eye \in {EyeOffset(rot, z)}})

\* A pan that would move by the size of dx, whatever its sign.
PannedBySize(tgt, rot, z, dx, dy) ==
  The({<<tgt[1] - Mul(b.right[1] * size - b.u[1] * dy, panSpeed),
         tgt[2] - Mul(b.right[2] * size - b.u[2] * dy, panSpeed),
         tgt[3] - Mul(b.right[3] * size - b.u[3] * dy, panSpeed)>> :
         panSpeed \in {Div(z * 15, 10000)}, b \in {PanBasis(rot, z)},
         size \in {IF dx < 0 THEN 0 - dx ELSE dx}})

\* Lines 200 and 241-243: pan.
Panned(tgt, rot, z, dx, dy) ==
  The({<<tgt[1] - Mul(b.right[1] * dx - b.u[1] * dy, panSpeed),
         tgt[2] - Mul(b.right[2] * dx - b.u[2] * dy, panSpeed),
         tgt[3] - Mul(b.right[3] * dx - b.u[3] * dy, panSpeed)>> :
         panSpeed \in {Div(z * 15, 10000)}, b \in {PanBasis(rot, z)}})

\* A zoom that would apply no floor.
ZoomedWithoutFloor(z, deltaY) == z + Div(deltaY * z, 1000)

\* Lines 249-251: zoom.
Zoomed(z, deltaY) ==
  LET z1 == z + Div(deltaY * z, 1000)
  IN  IF z1 < MinRadius THEN MinRadius ELSE z1

\* Lines 312-313 and 319-320: a zero length is replaced by 1.
Guarded(len) == IF len = 0 THEN Unit ELSE len

\* Lines 328-336: the matrix of a basis and an eye, column-major.
LookAt(right, newUp, fwd, eye) ==
  <<right[1], newUp[1], fwd[1], 0,
    right[2], newUp[2], fwd[2], 0,
    right[3], newUp[3], fwd[3], 0,
    0 - Dot(right, eye), 0 - Dot(newUp, eye), 0 - Dot(fwd, eye), Unit>>

\* Lines 291-337: getViewMatrix.
GetViewMatrix(tgt, rot, z) ==
  The({The({The({The({The({The({LookAt(right, newUp, fwd, eye) :
                                  newUp \in {Cross(fwd, right)}}) :
                             right \in {Scaled(xv, Guarded(Length(xv)))}}) :
                        xv \in {Cross(WorldUp, fwd)}}) :
                   fwd \in {Scaled(zv, Guarded(Length(zv)))}}) :
              zv \in {<<eye[1] - tgt[1], eye[2] - tgt[2], eye[3] - tgt[3]>>}}) :
         eye \in {The({<<tgt[1] + off[1], tgt[2] + off[2], tgt[3] + off[3]>> :
                         off \in {EyeOffset(rot, z)}})}})

\* 1 / tan(45 deg / 2)
FocalScale == 2414

\* zNear = 0.1 and zFar = 1000.0
ZNear == 100

ZFar == 1000000

\* Lines 274-289: getProjectionMatrix, column-major.
GetProjectionMatrix(size) ==
  <<Div(FocalScale * size[2], size[1]), 0, 0, 0,
    0, FocalScale, 0, 0,
    0, 0, 0 - Div((ZNear + ZFar) * Unit, ZFar - ZNear), 0 - Unit,
    0, 0, 0 - Div(2 * Div(ZNear * ZFar, Unit) * Unit, ZFar - ZNear), 0>>

-----------------------------------------------------------------------------
(* SplatRenderer: resources and the animation loop                         *)

MaxInits == 2

MaxFrames == 3

MaxEvents == 5

\* The ParsedSplatData values handed to init, by their vertexCount.
Datasets == {[vertexCount |-> 2], [vertexCount |-> 3]}

\* What the WebGL context can answer during init: createProgram returns null,
\* a shader does not compile, the program does not link, createVertexArray
\* returns null, or all succeed.
Outcomes == {"programNull", "compileVS", "compileFS", "link", "vaoNull", "ok"}

\* Lines 45-59: createProgram with createShader (lines 32-43); id names the
\* program object that gl.createProgram returns.
CreateProgram(outcome, id) ==
  CASE outcome = "programNull" ->
         [threw |-> TRUE, program |-> 0, programs |-> {}, shaders |-> 0]
    [] outcome = "compileVS" ->
         [threw |-> TRUE, program |-> 0, programs |-> {id}, shaders |-> 0]
    [] outcome = "compileFS" ->
         [threw |-> TRUE, program |-> 0, programs |-> {id}, shaders |-> 1]
    [] outcome = "link" ->
         [threw |-> TRUE, program |-> 0, programs |-> {}, shaders |-> 2]
    [] OTHER ->
         [threw |-> FALSE, program |-> id, programs |-> {id}, shaders |-> 2]

GlCall(op, arg) == [op |-> op, arg |-> arg]

\* Lines 262-271: the calls resize makes.
ResizeCalls(canvas, client) ==
  IF canvas # client THEN <<GlCall("viewport", client)>> ELSE <<>>

\* A loop that would draw whenever a program exists, vertex array or not.
DrawCallsWithoutVaoTest(prog, va, count, size, tgt, rot, z) ==
  IF prog # 0
    THEN <<[op |-> "useProgram", arg |-> <<prog>>],
           [op |-> "drawArrays", arg |-> <<count>>]>>
    ELSE <<>>

\* A loop that would upload the view matrix of the camera as constructed.
DrawCallsWithFirstView(prog, va, count, size, tgt, rot, z) ==
  IF prog # 0 /\ va # 0
    THEN <<GlCall("useProgram", <<prog>>),
           GlCall("uniformMatrix4fv u_projection", GetProjectionMatrix(size)),
           GlCall("uniformMatrix4fv u_view",
                  GetViewMatrix(<<0, 0, 0>>, [x |-> 0, y |-> 0], DefaultRadius)),
           GlCall("uniform1f u_viewport_height", <<size[2]>>),
           GlCall("bindVertexArray", <<va>>),
           GlCall("drawArrays", <<count>>)>>
    ELSE <<>>

\* Lines 347-360: the calls made when a program and a vertex array exist.
DrawCalls(prog, va, count, size, tgt, rot, z) ==
  IF prog # 0 /\ va # 0
    THEN <<GlCall("useProgram", <<prog>>),
           GlCall("uniformMatrix4fv u_projection", GetProjectionMatrix(size)),
           GlCall("uniformMatrix4fv u_view", GetViewMatrix(tgt, rot, z)),
           GlCall("uniform1f u_viewport_height", <<size[2]>>),
           GlCall("bindVertexArray", <<va>>),
           GlCall("drawArrays", <<count>>)>>
    ELSE <<>>

\* Lines 341-363: the body of loop, called for the handle fired (0 when
\* startLoop calls it itself); prog and va are this.program and this.vao as
\* the call finds them.
loop(fired, prog, va, count) ==
  /\ canvasSize' = clientSize
  /\ lastFrame' = ResizeCalls(canvasSize, clientSize)
                    \o <<GlCall("clear", <<>>)>>
                    \o DrawCalls(prog, va, count, clientSize, target, camRot, radius)
  /\ frames' = frames + 1
  /\ animationId' = nextHandle
  /\ rafQueue' = (rafQueue \ {fired}) \cup {nextHandle}
  /\ nextHandle' = nextHandle + 1

\* Lines 61-144: what init assigns, with startLoop (lines 340-365) when
\* nothing throws.
initSteps(data, outcome) ==
  LET id == inits + 1
      made == CreateProgram(outcome, id)
      vaoCreated == outcome # "vaoNull"
      va == IF vaoCreated THEN id ELSE 0
  IN  /\ inits < MaxInits
      /\ inits' = id
      /\ thisVertexCount' = data.vertexCount
      /\ loaded' = data.vertexCount
      /\ glPrograms' = glPrograms \cup made.programs
      /\ glShaders' = glShaders + made.shaders
      /\ IF made.threw
           THEN UNCHANGED <<program, vao, animationId, glVaos, glBuffers,
                            hostVars, frames, lastFrame, disposed>>
           ELSE /\ program' = made.program
                /\ vao' = va
                /\ glVaos' = IF vaoCreated
                               THEN glVaos \cup {[id |-> id, count |-> data.vertexCount]}
                               ELSE glVaos
                /\ glBuffers' = glBuffers + 4
                /\ loop(0, made.program, va, data.vertexCount)
                /\ disposed' = FALSE
                /\ UNCHANGED clientSize
      /\ UNCHANGED <<appVars, plyVars, dragVars, events, lastEvent>>

\* A load that would put the camera back to its defaults.
initResettingCamera(data, outcome) ==
  /\ initSteps(data, outcome)
  /\ target' = <<0, 0, 0>>
  /\ radius' = DefaultRadius
  /\ camRot' = [x |-> 0, y |-> 0]

\* Lines 61-144: init assigns none of target, radius, camRot.
init(data, outcome) ==
  /\ initSteps(data, outcome)
  /\ UNCHANGED cameraVars

\* The host runs a pending callback of requestAnimationFrame.
Frame(handle) ==
  /\ frames < MaxFrames
  /\ handle \in rafQueue
  /\ loop(handle, program, vao, thisVertexCount)
  /\ UNCHANGED <<appVars, plyVars, program, vao, thisVertexCount, cameraVars, dragVars, glVars,
                 clientSize, inits, events, lastEvent, loaded, disposed>>

\* Lines 367-370
cleanup ==
  /\ rafQueue' = IF animationId # 0 THEN rafQueue \ {animationId} ELSE rafQueue
  /\ disposed' = TRUE
  /\ UNCHANGED <<appVars, plyVars, rendererVars, cameraVars, dragVars, glVars, clientSize,
                 canvasSize, nextHandle, inits, frames, events, lastEvent, lastFrame, loaded>>

\* The sizes the page may lay the canvas element out with.
ClientSizes == {<<800, 600>>, <<400, 400>>}

-----------------------------------------------------------------------------
(* SplatRenderer: the input handlers (lines 146-259)                       *)

\* clientX, clientY of the pointer events
Pointers == {<<0, 0>>, <<0, 1000>>, <<40, 1300>>, <<0 - 700, 500>>}

\* MouseEvent.button: primary, auxiliary, secondary
Buttons == {0, 1, 2}

\* WheelEvent.deltaY
WheelDeltas == {0 - 12000, 100}

Event(kind, dx, dy) ==
  [kind |-> kind, button |-> dragButton, dx |-> dx, dy |-> dy, before |-> camRot,
   from |-> target]

Handled(kind, dx, dy) ==
  /\ events < MaxEvents
  /\ events' = events + 1
  /\ lastEvent' = Event(kind, dx, dy)
  /\ UNCHANGED <<appVars, plyVars, rendererVars, glVars, hostVars, inits, frames, lastFrame,
                 loaded, disposed>>

\* Lines 147-151
mousedown(button, at) ==
  /\ Handled("mousedown", 0, 0)
  /\ isDragging' = TRUE
  /\ dragButton' = button
  /\ lastMouse' = at
  /\ UNCHANGED cameraVars

\* Lines 153-156
mouseup ==
  /\ Handled("mouseup", 0, 0)
  /\ isDragging' = FALSE
  /\ dragButton' = 0 - 1
  /\ UNCHANGED <<lastMouse, cameraVars>>

\* A move handler that would pan with every button but the primary one.
mousemovePanningOtherwise(at) ==
  LET dx == at[1] - lastMouse[1]
      dy == at[2] - lastMouse[2]
  IN  /\ Handled("mousemove", dx, dy)
      /\ UNCHANGED <<isDragging, dragButton, radius>>
      /\ IF ~isDragging
           THEN UNCHANGED <<lastMouse, target, camRot>>
           ELSE /\ lastMouse' = at
                /\ camRot' = IF dragButton = 0 THEN Rotated(camRot, dx, dy) ELSE camRot
                /\ target' = IF dragButton # 0
                               THEN Panned(target, camRot, radius, dx, dy)
                               ELSE target

\* Lines 158-245
mousemove(at) ==
  LET dx == at[1] - lastMouse[1]
      dy == at[2] - lastMouse[2]
  IN  /\ Handled("mousemove", dx, dy)
      /\ UNCHANGED <<isDragging, dragButton, radius>>
      /\ IF ~isDragging
           THEN UNCHANGED <<lastMouse, target, camRot>>
           ELSE /\ lastMouse' = at
                /\ camRot' = IF dragButton = 0 THEN Rotated(camRot, dx, dy) ELSE camRot
                /\ target' = IF dragButton = 2
                               THEN Panned(target, camRot, radius, dx, dy)
                               ELSE target

\* Lines 247-252
wheel(deltaY) ==
  /\ Handled("wheel", 0, deltaY)
  /\ radius' = Zoomed(radius, deltaY)
  /\ UNCHANGED <<target, camRot, dragVars>>

-----------------------------------------------------------------------------
(* The renderer as the Viewer constructs it (lines 6-29)                   *)

DefaultCamRot == [x |-> 0, y |-> 0]

RendererInitial ==
  /\ program = 0
  /\ vao = 0
  /\ thisVertexCount = 0
  /\ animationId = 0
  /\ target = <<0, 0, 0>>
  /\ radius = DefaultRadius
  /\ camRot = DefaultCamRot
  /\ isDragging = FALSE
  /\ dragButton = 0 - 1
  /\ lastMouse = <<0, 0>>
  /\ glPrograms = {}
  /\ glShaders = 0
  /\ glVaos = {}
  /\ glBuffers = 0
  /\ clientSize \in ClientSizes
  /\ canvasSize = <<300, 150>>
  /\ rafQueue = {}
  /\ nextHandle = 1
  /\ inits = 0
  /\ frames = 0
  /\ events = 0
  /\ lastEvent = [kind |-> "none", button |-> 0 - 1, dx |-> 0, dy |-> 0,
                  before |-> DefaultCamRot, from |-> <<0, 0, 0>>]
  /\ lastFrame = <<>>
  /\ loaded = 0 - 1
  /\ disposed = FALSE

\* No decode is in progress.
PlyIdle ==
  /\ file = ""
  /\ pc = "idle"
  /\ headerLines = <<>>
  /\ i = 0
  /\ headerOffset = 0
  /\ endHeaderIndex = 0 - 1
  /\ vertexCount = 0
  /\ isBinary = FALSE
  /\ inVertexElement = FALSE
  /\ properties = <<>>
  /\ renderCount = 0
  /\ byteOffset = 0
  /\ firstReadOffset = 0 - 1
  /\ vi = 0
  /\ verts = <<>>
  /\ result = [status |-> "pending", message |-> "", data |-> <<>>]

\* The pointer and wheel events alone, from the default camera.
CameraNext ==
  \/ \E button \in Buttons, at \in Pointers : mousedown(button, at)
  \/ mouseup
  \/ \E at \in Pointers : mousemove(at)
  \/ \E deltaY \in WheelDeltas : wheel(deltaY)

\* The events that interleave with the loads and the frames.
LoopPointers == {<<0, 0>>, <<0, 1000>>}

LoopButtons == {0, 2}

LoopWheelDeltas == {100}

\* Bound: the events handled between loads and frames.
MaxLoopEvents == 1

\* One more event may be handled here.
LoopEvent == events < MaxLoopEvents

\* Loads, frames and disposal in any order, with events in between.
RendererNext ==
  \/ \E data \in Datasets, outcome \in Outcomes : init(data, outcome)
  \/ \E handle \in rafQueue : Frame(handle)
  \/ cleanup
  \/ \E button \in LoopButtons, at \in LoopPointers : LoopEvent /\ mousedown(button, at)
  \/ LoopEvent /\ mouseup
  \/ \E at \in LoopPointers : LoopEvent /\ mousemove(at)
  \/ \E deltaY \in LoopWheelDeltas : LoopEvent /\ wheel(deltaY)

-----------------------------------------------------------------------------
(* App: the file input and the delayed parses (App.tsx lines 6-34)         *)

\* Bound: the number of files selected in a run.
MaxSelections == 3

\* The files the user may select: two that parse, one that does not.
AppFiles ==
  { [name |-> "a.ply", parses |-> TRUE], [name |-> "b.ply", parses |-> TRUE],
    [name |-> "bad.ply", parses |-> FALSE] }

\* null, the initial `data`
Null == [of |-> ""]

\* What parsePlyFile resolves with for a file.
ParsedData(f) == [of |-> f.name]

\* Lines 7-10
AppInitial ==
  /\ status = "IDLE"
  /\ appData = Null
  /\ errorMsg = ""
  /\ fileName = ""
  /\ timers = <<>>
  /\ parsing = {}
  /\ selections = 0

\* Lines 12-22 and 33: handleFileChange up to setTimeout.
handleFileChange(f) ==
  /\ selections < MaxSelections
  /\ selections' = selections + 1
  /\ fileName' = f.name
  /\ status' = "LOADING"
  /\ errorMsg' = ""
  /\ appData' = Null
  /\ timers' = Append(timers, [id |-> selections + 1, file |-> f])
  /\ UNCHANGED <<parsing, plyVars, viewerVars>>

\* Lines 22-25: the callback of setTimeout, up to the await.  The delays
\* are equal, so the callbacks run in the order they were set.
timeout ==
  /\ timers # <<>>
  /\ status' = "PARSING"
  /\ parsing' = parsing \cup {Head(timers)}
  /\ timers' = Tail(timers)
  /\ UNCHANGED <<appData, errorMsg, fileName, selections, plyVars, viewerVars>>

\* Lines 25-32: an awaited parsePlyFile settles, in any order.
settle(p) ==
  /\ p \in parsing
  /\ parsing' = parsing \ {p}
  /\ IF p.file.parses
       THEN /\ appData' = ParsedData(p.file)
            /\ status' = "RENDERING"
            /\ UNCHANGED errorMsg
       ELSE /\ status' = "ERROR"
            /\ errorMsg' = "Failed to parse PLY file"
            /\ UNCHANGED appData
  /\ UNCHANGED <<fileName, timers, selections, plyVars, viewerVars>>

AppNext ==
  \/ \E f \in AppFiles : handleFileChange(f)
  \/ timeout
  \/ \E p \in parsing : settle(p)

\* A decode begins; the renderer is as constructed.
DecodeInit == PlyInit /\ RendererInitial /\ AppInitial

\* The renderer is as constructed; no decode is in progress.
ViewerInit == PlyIdle /\ RendererInitial /\ AppInitial

SpecPly == DecodeInit /\ [][PlyNext]_vars

SpecRenderer == ViewerInit /\ [][RendererNext]_vars

SpecCamera == ViewerInit /\ [][CameraNext]_vars

\* The App as mounted: no decode in progress, the renderer as constructed.
SpecApp == ViewerInit /\ [][AppNext]_vars

-----------------------------------------------------------------------------
(* Claims about the renderer's resources and loop                          *)

\* The counts of the draw calls among the GPU calls of a loop invocation.
Drawn(calls) ==
  LET draws == SelectSeq(calls, LAMBDA c : c.op = "drawArrays")
  IN  [k \in 1..Len(draws) |-> draws[k].arg[1]]

\* C7: once cleanup was called, no per-frame callback stays pending and no
\* later loop invocation issues a GPU call, whatever init calls, frames and
\* input events came before.
C7_NoFrameAfterCleanup ==
  [][(disposed' => rafQueue' = {}) /\ (disposed /\ disposed' => frames' = frames)]_vars

\* C8: an init that succeeds on a renderer holding a program, a vertex array
\* and buffers releases them before it creates the new ones: the previous
\* program and vertex array are no longer live and no buffer is added.
C8_PreviousSetReleased ==
  [][(inits' # inits /\ program # 0 /\ vao # 0 /\ program' # program) =>
       /\ program \notin glPrograms'
       /\ \A v \in glVaos' : v.id # vao
       /\ glBuffers' <= glBuffers]_vars

C9_WitnessNoDraw ==
  /\ frames > 0
  /\ program # 0 /\ vao = 0
  /\ Drawn(lastFrame) = <<>>

-----------------------------------------------------------------------------
(* Claims about the camera                                                 *)

\* The step is a pointer move that rotates: a drag with the primary button.
RotateStep ==
  /\ events' # events
  /\ lastEvent'.kind = "mousemove"
  /\ isDragging
  /\ dragButton = 0

\* C10 as stated: from the default camera (pitch 0) a rotate by dx = 0,
\* dy = +1000 leaves pitch at its upper bound pi/2 - 0.01, and a further
\* rotate with dy > 0 leaves it there.
C10_PitchAtUpperBound ==
  [][/\ (RotateStep /\ camRot = DefaultCamRot /\ lastEvent'.dx = 0 /\ lastEvent'.dy = 1000)
          => camRot'.x = PitchLimit
     /\ (RotateStep /\ camRot.x = PitchLimit /\ lastEvent'.dy > 0)
          => camRot'.x = camRot.x]_vars

\* C10 amended: from the default camera (pitch 0) a rotate by dx = 0,
\* dy = +1000 leaves pitch at its lower bound -(pi/2 - 0.01) and not beyond
\* it, and a further rotate with dy > 0 leaves pitch unchanged.
C10_PitchAtLowerBound ==
  [][/\ (RotateStep /\ camRot = DefaultCamRot /\ lastEvent'.dx = 0 /\ lastEvent'.dy = 1000)
          => camRot'.x = 0 - PitchLimit
     /\ (RotateStep /\ camRot.x = 0 - PitchLimit /\ lastEvent'.dy > 0)
          => camRot'.x = camRot.x]_vars

\* C10 witness: a press at the origin, a move by (0, 1000) from the default
\* camera, then a move by (40, 300) that found the pitch at the lower bound
\* and left it there.
C10_Witness ==
  /\ events = 3
  /\ lastEvent.kind = "mousemove"
  /\ lastEvent.button = 0
  /\ lastEvent.dx = 40 /\ lastEvent.dy = 300
  /\ lastEvent.before = [x |-> 0 - PitchLimit, y |-> 0]
  /\ camRot = [x |-> 0 - PitchLimit, y |-> 0 - 40 * RotPerPixel]

\* C11: after any sequence of mousedown, mousemove, mouseup and wheel events
\* the pitch lies within [-(pi/2 - 0.01), pi/2 - 0.01], and every rotate
\* subtracts dx * 0.005 from the yaw, which no clamp limits.
C11_PitchClampedYawFree ==
  /\ [](0 - PitchLimit <= camRot.x /\ camRot.x <= PitchLimit)
  /\ [][RotateStep => camRot'.y = camRot.y - lastEvent'.dx * RotPerPixel]_vars

\* C11 witness: a rotate by (-700, 500) from the default camera has left the
\* pitch at its bound and carried the yaw beyond pi.
C11_Witness ==
  /\ lastEvent.kind = "mousemove"
  /\ lastEvent.button = 0
  /\ lastEvent.before = DefaultCamRot
  /\ lastEvent.dx = 0 - 700 /\ lastEvent.dy = 500
  /\ camRot.x = 0 - PitchLimit
  /\ camRot.y = 700 * RotPerPixel
  /\ camRot.y > Pi

\* C12: after any sequence of events the radius is at least 0.1, and a wheel
\* event adds deltaY x 0.01 x 0.1 x radius to the radius before the floor of
\* 0.1 is applied.
C12_RadiusFloored ==
  /\ [](radius >= MinRadius)
  /\ [][(events' # events /\ lastEvent'.kind = "wheel") =>
          LET raw == radius + Div(lastEvent'.dy * radius, 1000)
          IN  radius' = IF raw < MinRadius THEN MinRadius ELSE raw]_vars

\* C12 witness: one wheel event with deltaY = -12000 on the default radius,
\* which would give 5 - 60 = -55, has left the radius at the floor.
C12_Witness ==
  /\ events = 1
  /\ lastEvent.kind = "wheel"
  /\ lastEvent.dy = 0 - 12000
  /\ DefaultRadius + Div(lastEvent.dy * DefaultRadius, 1000) < 0
  /\ radius = MinRadius

\* The step is a pointer move that pans: a drag with the secondary button.
PanStep ==
  /\ events' # events
  /\ lastEvent'.kind = "mousemove"
  /\ dragButton = 2

\* The latest event was a pan.
Panning == lastEvent.kind = "mousemove" /\ lastEvent.button = 2

\* C13: a pan by (dx, dy) immediately followed by a pan by (-dx, -dy) returns
\* the target to the value it had before the first pan, from any camera state.
C13_PanRoundTrip ==
  [][(Panning /\ PanStep /\ lastEvent'.dx = 0 - lastEvent.dx
        /\ lastEvent'.dy = 0 - lastEvent.dy)
       => target' = lastEvent.from]_vars

\* C13 witness: after a rotate away from the default camera, a pan that moved
\* the target and the opposite pan that brought it back.
C13_Witness ==
  /\ Panning
  /\ camRot.x # 0 /\ camRot.y # 0
  /\ lastEvent.dx # 0 /\ lastEvent.dy # 0
  /\ lastEvent.from # <<0, 0, 0>>
  /\ target = <<0, 0, 0>>

-----------------------------------------------------------------------------
(* Claims about the decoded attributes                                     *)

\* The slot and the transform the format gives to a float property name.
AttributeOf(name) ==
  CASE name = "x" -> [buf |-> "positions", k |-> 1, fn |-> "id"]
    [] name = "y" -> [buf |-> "positions", k |-> 2, fn |-> "id"]
    [] name = "z" -> [buf |-> "positions", k |-> 3, fn |-> "id"]
    [] name = "rot_0" -> [buf |-> "rotations", k |-> 1, fn |-> "id"]
    [] name = "rot_1" -> [buf |-> "rotations", k |-> 2, fn |-> "id"]
    [] name = "rot_2" -> [buf |-> "rotations", k |-> 3, fn |-> "id"]
    [] name = "rot_3" -> [buf |-> "rotations", k |-> 4, fn |-> "id"]
    [] name = "scale_0" -> [buf |-> "scales", k |-> 1, fn |-> "exp"]
    [] name = "scale_1" -> [buf |-> "scales", k |-> 2, fn |-> "exp"]
    [] name = "scale_2" -> [buf |-> "scales", k |-> 3, fn |-> "exp"]
    [] name = "opacity" -> [buf |-> "opacities", k |-> 1, fn |-> "1/(1+exp(-v))"]
    [] name = "f_dc_0" ->
         [buf |-> "colors", k |-> 1, fn |-> "clamp01(0.5+0.28209479177387814*v)"]
    [] name = "f_dc_1" ->
         [buf |-> "colors", k |-> 2, fn |-> "clamp01(0.5+0.28209479177387814*v)"]
    [] name = "f_dc_2" ->
         [buf |-> "colors", k |-> 3, fn |-> "clamp01(0.5+0.28209479177387814*v)"]
    [] OTHER -> [buf |-> "none", k |-> 0, fn |-> "none"]

AttributeNames ==
  {"x", "y", "z", "rot_0", "rot_1", "rot_2", "rot_3", "scale_0", "scale_1",
   "scale_2", "opacity", "f_dc_0", "f_dc_1", "f_dc_2"}

SetMax(P) == CHOOSE p \in P : \A q \in P : q <= p

\* The offset of property k inside a vertex record.
PropOffset(props, k) == Stride(SubSeq(props, 1, k - 1))

\* The float properties of a schema that carry the name.
FloatsNamed(props, name) ==
  {k \in 1..Len(props) : IsFloatType(props[k].type) /\ props[k].name = name}

\* parsePlyFile resolved a file whose header is terminated, whose vertex
\* block is the schema the decoder used, and whose types all have a width.
PlainDecode ==
  /\ pc = "done"
  /\ result.status = "ok"
  /\ endHeaderIndex >= 0
  /\ EndHeaderTerminated
  /\ headerOffset = TrueHeaderLength
  /\ properties = FirstVertexBlock
  /\ \A k \in 1..Len(properties) : TypeWidth(properties[k].type) > 0

\* The four bytes of property k of vertex j in the file.
RecordBytes(j, k) ==
  LET schema == FirstVertexBlock
      at == TrueHeaderLength + j * Stride(schema) + PropOffset(schema, k)
  IN  SubSeq(file, at + 1, at + 4)

\* C14: for every vertex decoded from a plain file, each float property of
\* a routed name lands in its slot with its transform: x, y, z and rot_0..3
\* (as w, x, y, z) unchanged, scale_0..2 exponentiated, opacity through the
\* logistic function, f_dc_0..2 as 0.5 + 0.28209479177387814 v clamped to
\* [0, 1].
C14_FloatsRoutedByName ==
  PlainDecode =>
    \A r \in 1..Len(verts) : \A name \in AttributeNames :
      LET K == FloatsNamed(FirstVertexBlock, name)
          a == AttributeOf(name)
      IN  K # {} =>
            verts[r].v[a.buf][a.k] =
              [fn |-> a.fn, src |-> RecordBytes(verts[r].first, SetMax(K))]

\* Two vertices of the full fourteen-float layout were decoded.
C14_Witness ==
  /\ PlainDecode
  /\ Len(verts) = 2
  /\ \A name \in AttributeNames : FloatsNamed(FirstVertexBlock, name) # {}
  /\ verts[2].v.scales[3].fn = "exp"
  /\ verts[2].v.scales[3].src # verts[1].v.scales[3].src

\* The default the format gives to an attribute.
DefaultOf(name) ==
  CASE name \in {"x", "y", "z"} -> Const("0")
    [] name \in {"scale_0", "scale_1", "scale_2"} -> Const("0.1")
    [] name = "rot_0" -> Const("1")
    [] name \in {"rot_1", "rot_2", "rot_3"} -> Const("0")
    [] name = "opacity" -> Const("1.0")
    [] name \in {"f_dc_0", "f_dc_1", "f_dc_2"} -> Const("0.5")

\* The names of the properties of a schema.
NamesOf(props) == {props[k].name : k \in 1..Len(props)}

\* parsePlyFile resolved with a count.
Retained == pc = "done" /\ result.status = "ok" /\ result.data[1].vertexCount # NaN

\* One index for each run of equal vertices among 0..vertexCount - 1: the
\* first of every stored run, and the first vertex the loop did not store.
RetainedIndexes ==
  {verts[r].first : r \in 1..Len(verts)}
    \cup (IF Covered(verts) < result.data[1].vertexCount THEN {Covered(verts)} ELSE {})

\* C15: for every vertex of the result, each attribute whose property name
\* is absent from the vertex schema holds its default: position 0, scale
\* 0.1 (not exponentiated), rotation (1, 0, 0, 0), opacity 1.0, colour 0.5.
C15_AbsentHoldDefault ==
  Retained =>
    \A j \in RetainedIndexes : \A name \in AttributeNames \ NamesOf(FirstVertexBlock) :
      LET a == AttributeOf(name)
      IN  VertexAt(verts, j)[a.buf][a.k] = DefaultOf(name)

\* C15, for the vertices the loop stored when the schema in use is the
\* vertex block: these hold the defaults.
C15_StoredHoldDefault ==
  (Retained /\ properties = FirstVertexBlock) =>
    \A r \in 1..Len(verts) : \A name \in AttributeNames \ NamesOf(FirstVertexBlock) :
      LET a == AttributeOf(name)
      IN  verts[r].v[a.buf][a.k] = DefaultOf(name)

\* The header ends with end_header, has a format line, and every format
\* line of it names binary_little_endian 1.0.
ValidFormatAndEnd ==
  LET hs == HeaderLineSeq
  IN  /\ PrefixEnd > 0
      /\ \E k \in 1..Len(hs) : IsFormatLine(hs[k])
      /\ \A k \in 1..Len(hs) :
           IsFormatLine(hs[k]) => Includes(hs[k], "binary_little_endian 1.0")

\* The result is the empty one: no vertex, five buffers of length 0.
EmptyResult ==
  /\ result.status = "ok"
  /\ result.data[1].vertexCount = 0
  /\ result.data[1].positionsLen = 0
  /\ result.data[1].scalesLen = 0
  /\ result.data[1].rotationsLen = 0
  /\ result.data[1].opacitiesLen = 0
  /\ result.data[1].colorsLen = 0

\* C16: a header with a valid format line and end_header but no
\* `element vertex` line decodes without error to the empty result.
C16_NoVertexElementEmpty ==
  (pc = "done" /\ ValidFormatAndEnd
     /\ \A k \in 1..Len(HeaderLineSeq) : ~IsVertexDecl(HeaderLineSeq[k]))
  => EmptyResult

\* C16, for headers none of whose element names begins with `vertex`.
C16_NoVertexPrefixEmpty ==
  (pc = "done" /\ ValidFormatAndEnd
     /\ \A k \in 1..Len(HeaderLineSeq) : ~StartsWith(HeaderLineSeq[k], "element vertex"))
  => EmptyResult

-----------------------------------------------------------------------------
(* Claims about the camera across loads                                    *)

\* C17: init(data), for a first or a later file, and cleanup() leave
\* target, radius, pitch and yaw unchanged; they change only in steps of the
\* pointer-move and wheel handlers.
C17_CameraKeptAcrossLoads ==
  /\ [][(inits' # inits \/ disposed' # disposed \/ loaded' # loaded)
          => cameraVars' = cameraVars]_vars
  /\ [][cameraVars' # cameraVars
          => (events' # events /\ lastEvent'.kind \in {"mousemove", "wheel"})]_vars

\* C17 witness: the second load succeeded and drew the only frame, with the
\* view of the radius a wheel event had left; a cleanup followed, and the
\* radius is still that one.
C17_Witness ==
  /\ inits = 2 /\ frames = 1 /\ program = 2 /\ vao = 2
  /\ disposed
  /\ lastEvent.kind = "wheel"
  /\ radius # DefaultRadius
  /\ radius = DefaultRadius + Div(lastEvent.dy * DefaultRadius, 1000)
  /\ GlCall("uniformMatrix4fv u_view", GetViewMatrix(target, camRot, radius))
       \in {lastFrame[k] : k \in 1..Len(lastFrame)}
  /\ GetViewMatrix(target, camRot, radius) # GetViewMatrix(target, camRot, DefaultRadius)

-----------------------------------------------------------------------------
(* Claims about the byte cursor                                            *)

\* The width of a property when a type without a width of its own falls
\* back to 4 bytes.
WidthWithFallback(type) == IF TypeWidth(type) > 0 THEN TypeWidth(type) ELSE 4

RECURSIVE StrideWithFallback(_)
StrideWithFallback(props) ==
  IF props = <<>> THEN 0
  ELSE WidthWithFallback(Head(props).type) + StrideWithFallback(Tail(props))

\* An iteration of the vertex loop has stored a vertex.
VertexStep == pc = "decode" /\ verts' # verts

\* C18: every schema property advances the byte cursor by a positive width,
\* a property of a type other than float, float32, uchar, uint8, int, int32
\* and double by the fallback width of 4; so storing a vertex moves the
\* cursor by the sum of these widths.
C18_EveryPropertyAdvances ==
  [][VertexStep =>
       byteOffset' = byteOffset + (vi' - vi) * StrideWithFallback(properties)]_vars

\* C18, for the schemas of known types: the cursor moves by the stride.
C18_KnownTypesAdvance ==
  [][(VertexStep /\ \A k \in 1..Len(properties) : TypeWidth(properties[k].type) > 0)
       => byteOffset' = byteOffset + (vi' - vi) * Stride(properties)]_vars

\* Every type of the schema in use is one of float, float32, uchar, uint8,
\* int, int32, double.
KnownSchema == \A k \in 1..Len(properties) : TypeWidth(properties[k].type) > 0

\* C19: for a schema of known types, vertex i is read starting at byte
\* headerOffset + i x stride, the stride being the sum of the widths 4
\* (float, float32, int, int32), 1 (uchar, uint8) and 8 (double): the cursor
\* stands there before vertex i, and each float stored for vertex i comes
\* from the bytes of its property in that record.  A property that is not a
\* float changes no attribute, whatever its name: an attribute with no float
\* property of its name keeps its default.
C19_RecordLayout ==
  (pc \in {"decode", "done"} /\ KnownSchema) =>
    /\ pc = "decode" => byteOffset = headerOffset + vi * Stride(properties)
    /\ \A r \in 1..Len(verts) : \A name \in AttributeNames :
         LET K == FloatsNamed(properties, name)
             a == AttributeOf(name)
             at == headerOffset + verts[r].first * Stride(properties)
                     + PropOffset(properties, SetMax(K))
         IN  verts[r].v[a.buf][a.k] =
               IF K = {} THEN DefaultOf(name)
               ELSE [fn |-> a.fn, src |-> SubSeq(file, at + 1, at + 4)]

\* C19 witness: the second vertex of a 21-byte record `uchar x, float y,
\* int opacity, double scale_0, float f_dc_0` was stored: y comes from bytes
\* 1..4 of the second record, and x, opacity and scale_0 hold their defaults.
C19_Witness ==
  /\ pc = "done"
  /\ KnownSchema
  /\ Stride(properties) = 21
  /\ Len(verts) = 2
  /\ \E k \in 1..Len(properties) : properties[k] = [name |-> "x", type |-> "uchar"]
  /\ verts[2].v.positions[1] = Const("0")
  /\ verts[2].v.positions[2] =
       [fn |-> "id", src |-> SubSeq(file, headerOffset + 23, headerOffset + 26)]
  /\ verts[2].v.opacities[1] = Const("1.0")
  /\ verts[2].v.scales[1] = Const("0.1")
  /\ verts[2].v.colors[1].src = SubSeq(file, headerOffset + 39, headerOffset + 42)

-----------------------------------------------------------------------------
(* Claims about element lines                                              *)

\* The header loop takes the line after the i lines it has scanned, and
\* that line declares an element whose name is not `vertex`.
ScansOtherElement ==
  /\ pc = "scan"
  /\ i' = i + 1
  /\ IsElementLine(Trim(headerLines[i + 1]))
  /\ ~IsVertexDecl(Trim(headerLines[i + 1]))

\* C20: every element line other than `element vertex <N>` closes the
\* vertex element context and leaves vertexCount as it was, also when the
\* element name contains or begins with `vertex`, so that the property
\* lines after it are not added to the schema.
C20_OtherElementCloses ==
  [][ScansOtherElement => (~inVertexElement' /\ vertexCount' = vertexCount)]_vars

\* C20, for the element names that do not contain `vertex`.
C20_ForeignElementCloses ==
  [][(ScansOtherElement /\ ~Includes(Trim(headerLines[i + 1]), "vertex"))
       => (~inVertexElement' /\ vertexCount' = vertexCount)]_vars

-----------------------------------------------------------------------------
(* Claims about the pan basis and the frames                               *)

\* The right, up and forward axes of a view matrix (its first three
\* columns, the matrix being stored column-major).
ViewRight(m) == <<m[1], m[5], m[9]>>

ViewUp(m) == <<m[2], m[6], m[10]>>

ViewFwd(m) == <<m[3], m[7], m[11]>>

Negated(a) == <<0 - a[1], 0 - a[2], 0 - a[3]>>

\* C21: for every camera state, the right and up vectors the pan uses are
\* the right and up vectors getViewMatrix builds from the same target,
\* radius, pitch and yaw.
C21_PanBasisIsViewBasis ==
  \A b \in {PanBasis(camRot, radius)}, m \in {GetViewMatrix(target, camRot, radius)} :
    b.right = ViewRight(m) /\ b.u = ViewUp(m)

\* C21, as the code has it: the pan's forward vector is the opposite of the
\* view's, so its right vector is the opposite of the view's right vector,
\* never equal to it, while the up vectors agree.
C21_PanRightOpposesView ==
  \A b \in {PanBasis(camRot, radius)}, m \in {GetViewMatrix(target, camRot, radius)} :
    /\ b.f = Negated(ViewFwd(m))
    /\ b.right = Negated(ViewRight(m))
    /\ b.right # ViewRight(m)
    /\ b.u = ViewUp(m)

\* The arguments of the calls of one kind among the GPU calls of a frame.
Uploaded(calls, op) == {calls[k].arg : k \in {j \in 1..Len(calls) : calls[j].op = op}}

\* C22: the view and projection matrices a frame uploads are those of the
\* camera and the canvas as they are when the callback runs, so every event
\* handled before it is reflected; nothing is kept from an earlier frame.
C22_FrameReadsCurrentCamera ==
  [][(frames' # frames /\ program' # 0 /\ vao' # 0) =>
       /\ Uploaded(lastFrame', "uniformMatrix4fv u_view")
            = {GetViewMatrix(target, camRot, radius)}
       /\ Uploaded(lastFrame', "uniformMatrix4fv u_projection")
            = {GetProjectionMatrix(clientSize)}]_vars

\* C22 witness: a callback the host ran after a wheel event has uploaded the
\* view of the radius the event left, which is not the view of the default
\* radius.
C22_Witness ==
  /\ inits = 1 /\ frames = 2 /\ program # 0 /\ vao # 0
  /\ lastEvent.kind = "wheel"
  /\ radius # DefaultRadius
  /\ Uploaded(lastFrame, "uniformMatrix4fv u_view") = {GetViewMatrix(target, camRot, radius)}
  /\ GetViewMatrix(target, camRot, radius) # GetViewMatrix(target, camRot, DefaultRadius)

-----------------------------------------------------------------------------
(* Claims about the input handlers                                         *)

\* The step handles an event of the kind.
Handles(kind) == events' # events /\ lastEvent'.kind = kind

\* C23: a drag is active from a mouse-down to the next mouse-up.  A pointer
\* move changes the camera only while a drag is active: with the primary
\* button only pitch and yaw, with the secondary button only target, with
\* any other button nothing.  A wheel event changes only radius.
C23_HandlersChangeTheirPart ==
  /\ [][/\ Handles("mousedown") => isDragging'
        /\ Handles("mouseup") => ~isDragging'
        /\ ~(Handles("mousedown") \/ Handles("mouseup")) => isDragging' = isDragging]_vars
  /\ [][Handles("mousemove") =>
          /\ radius' = radius
          /\ ~isDragging => (target' = target /\ camRot' = camRot)
          /\ dragButton = 0 => target' = target
          /\ dragButton = 2 => camRot' = camRot
          /\ dragButton \notin {0, 2} => (target' = target /\ camRot' = camRot)]_vars
  /\ [][Handles("wheel") => (target' = target /\ camRot' = camRot)]_vars
  /\ [][(Handles("mousedown") \/ Handles("mouseup")) => cameraVars' = cameraVars]_vars

\* C23 witness: after a rotate, a drag with the secondary button has moved
\* the target and left pitch, yaw and radius as they were.
C23_Witness ==
  /\ lastEvent.kind = "mousemove"
  /\ lastEvent.button = 2
  /\ isDragging
  /\ target # lastEvent.from
  /\ camRot = lastEvent.before
  /\ camRot # [x |-> 0, y |-> 0]
  /\ radius = DefaultRadius

\* A drag with the auxiliary button has moved the pointer and changed nothing.
C23_WitnessOtherButton ==
  /\ lastEvent.kind = "mousemove"
  /\ lastEvent.button = 1
  /\ isDragging
  /\ lastEvent.dx # 0 /\ lastEvent.dy # 0
  /\ target = <<0, 0, 0>> /\ camRot = [x |-> 0, y |-> 0] /\ radius = DefaultRadius

\* C24: after cleanup, pointer and wheel events change neither the camera
\* nor the drag state of the renderer.
C24_NoInputAfterCleanup ==
  [][(disposed /\ events' # events) =>
       (cameraVars' = cameraVars /\ dragVars' = dragVars)]_vars

-----------------------------------------------------------------------------
(* Claims about the loop and failed loads                                  *)

\* C25: at any time at most one per-frame callback is pending, after any
\* sequence of init, frame and cleanup calls, and once cleanup has run no
\* callback is pending.
C25_OneCallbackPending ==
  /\ Cardinality(rafQueue) <= 1
  /\ disposed => rafQueue = {}

\* C25, for a renderer that is loaded once: one callback is pending while
\* it runs, none after cleanup.
C25_OneCallbackAfterOneLoad ==
  inits <= 1 => C25_OneCallbackPending

\* The step is an init call that threw: it started no loop.
FailedInit == inits' # inits /\ frames' = frames

\* C26: an init that fails in createProgram leaves vertexCount, program and
\* vertex array as they were, so that every draw call is over the vertex
\* count of the buffers of the current vertex array.
C26_FailedInitKeepsState ==
  /\ [][FailedInit => (thisVertexCount' = thisVertexCount /\ program' = program
                         /\ vao' = vao)]_vars
  /\ [][frames' # frames =>
          \A c \in {Drawn(lastFrame')[k] : k \in 1..Len(Drawn(lastFrame'))} :
            \E v \in glVaos' : v.id = vao' /\ v.count = c]_vars

\* C26, for what a failed init does keep: program and vertex array.
C26_FailedInitKeepsProgram ==
  [][FailedInit => (program' = program /\ vao' = vao)]_vars

\* A frame has drawn three vertices over the vertex array created for two.
C26_DrawOverOtherCount ==
  /\ program # 0 /\ vao # 0
  /\ Drawn(lastFrame) = <<3>>
  /\ \E v \in glVaos : v.id = vao /\ v.count = 2

-----------------------------------------------------------------------------
(* Claims about the App                                                    *)

\* Every delayed parse has completed.
AllParsesDone == selections > 0 /\ timers = <<>> /\ parsing = {}

\* The file selected most recently: the one whose name is shown.
LatestFile == CHOOSE f \in AppFiles : f.name = fileName

\* C27: once all parses of the files selected in succession have completed,
\* in whatever order, the data passed to the Viewer is the result for the
\* file selected most recently, and status is ERROR only if the parse of
\* that file failed, data being null then.
C27_LatestFileShown ==
  AllParsesDone =>
    /\ appData = IF LatestFile.parses THEN ParsedData(LatestFile) ELSE Null
    /\ status = "ERROR" => (~LatestFile.parses /\ appData = Null)

\* C27, for a single selection: nothing overlaps.
C27_OneFileShown ==
  (AllParsesDone /\ selections = 1) =>
    /\ appData = IF LatestFile.parses THEN ParsedData(LatestFile) ELSE Null
    /\ status = "ERROR" <=> ~LatestFile.parses

====
